---- MODULE Spec2Model ----
(***************************************************************************)
(* Model of MAE-pytorch/datasets.py: the transform builder, the dataset    *)
(* selector, the pretraining dataset assembly and the saliency sample      *)
(* wrapper.                                                                *)
(*                                                                         *)
(* Numbers: crop_pct is a float in the source.  It is modelled as an exact *)
(* fraction <<num, den>>.  Every fraction used here has a power-of-two     *)
(* denominator, so the float holds it exactly, the float division          *)
(* input_size / crop_pct is the correctly rounded exact quotient, and      *)
(* int() of it is the floor of the exact quotient.                         *)
(* Strings that the code takes apart (paths) are sequences of characters.  *)
(***************************************************************************)
EXTENDS Integers, Sequences, FiniteSets, TLC

VARIABLES
    args,   \* the configuration object handed to every builder
    env,    \* what is on disk: class counts discovered under each root
    ret,    \* outcome of the last build_transform / build_dataset call
    pre,    \* args at entry of the last call, and the external pipeline it got
    first,  \* the first evaluation pipeline built, once there is one
    calls,  \* number of builder calls made so far
    disk,   \* image files listed under data_path, saliency files that exist
    ds,     \* <<dataset handle, standard>> once build_pretraining_dataset ran
    item,   \* outcome of the last sample retrieval
    log,    \* mask generator invocations made by the last retrieval
    hist    \* index and outcome of every retrieval so far

builderVars == <<ret, pre, first, calls, env>>
pretrainVars == <<disk, ds, item, log, hist>>
vars == <<args, env, ret, pre, first, calls, disk, ds, item, log, hist>>

\* crop_pct = None: no fraction
None == << >>

MaxCalls == 3
MaxGets == 3

(***************************************************************************)
(* Program constants                                                       *)
(***************************************************************************)
SmallInput == 32          \* resize_im = args.input_size > 32
LargeInput == 384         \* args.input_size < 384
CropNum == 224            \* args.crop_pct = 224 / 256
CropDen == 256
CropPadding == 4          \* transforms.RandomCrop(args.input_size, padding=4)
Bicubic == 3              \* transforms.Resize(size, interpolation=3)
CifarClasses == 100
ImnetClasses == 1000

(***************************************************************************)
(* Fractions <<n, d>>, d > 0, kept in lowest terms                         *)
(***************************************************************************)
RECURSIVE Gcd(_, _)
Gcd(a, b) == IF b = 0 THEN a ELSE Gcd(b, a % b)

Frac(n, d) == <<n \div Gcd(n, d), d \div Gcd(n, d)>>

\* rounds to the nearest integer instead of truncating
IntDivRounded(i, f) == (2 * i * f[2] + f[1]) \div (2 * f[1])

\* int(i / f) for a positive integer i and a positive fraction f
IntDiv(i, f) == (i * f[2]) \div f[1]

(***************************************************************************)
(* Transform steps                                                         *)
(***************************************************************************)
Step(op, size, padding, interp, mean, std) ==
    [op |-> op, size |-> size, padding |-> padding, interp |-> interp,
     mean |-> mean, std |-> std]

Plain(op) == Step(op, 0, 0, 0, "", "")

\* lines 131-133: the mean / std preset
Mean(a) == IF ~a.imagenet_default_mean_and_std
           THEN "IMAGENET_INCEPTION_MEAN" ELSE "IMAGENET_DEFAULT_MEAN"
Std(a) == IF ~a.imagenet_default_mean_and_std
          THEN "IMAGENET_INCEPTION_STD" ELSE "IMAGENET_DEFAULT_STD"

\* off by one: 32 counts as large
ResizeImInclusive(a) == a.input_size >= SmallInput

ResizeIm(a) == a.input_size > SmallInput

\* timm's create_transform(is_training=True, ...): an external procedure.
\* Its pipeline starts with the resized random crop; what follows depends
\* on color_jitter, aa and the random-erasing options.
CreateTransform(a) ==
    LET rrc == Step("RandomResizedCropAndInterpolation", a.input_size, 0, 0, "", "")
        nrm == Step("Normalize", 0, 0, 0, Mean(a), Std(a))
    IN  { <<rrc, Plain("ToTensor"), nrm>>,
          <<rrc, Plain("RandomHorizontalFlip"), Plain("ColorJitter"),
            Plain("ToTensor"), nrm>>,
          <<rrc, Plain("RandomHorizontalFlip"), Plain("AutoAugment"),
            Plain("ToTensor"), nrm, Plain("RandomErasing")>> }

\* replaces the first step whatever the input size
TrainTransformAlways(a, ext) ==
    [ext EXCEPT ![1] = Step("RandomCrop", a.input_size, CropPadding, 0, "", "")]

\* lines 149-153: transform.transforms[0] = RandomCrop(input_size, padding=4)
TrainTransform(a, ext) ==
    IF ~ResizeIm(a)
    THEN [ext EXCEPT ![1] = Step("RandomCrop", a.input_size, CropPadding, 0, "", "")]
    ELSE ext

\* lines 159-162
DefaultCropPct(a) ==
    IF a.input_size < LargeInput THEN Frac(CropNum, CropDen) ELSE Frac(1, 1)

\* fills crop_pct in before looking at resize_im
EvalArgsUnguarded(a) ==
    IF a.crop_pct = None
    THEN [a EXCEPT !.crop_pct = DefaultCropPct(a)]
    ELSE a

\* recomputes crop_pct on every call
EvalArgsOverwrite(a) ==
    IF ResizeIm(a)
    THEN [a EXCEPT !.crop_pct = DefaultCropPct(a)]
    ELSE a

\* lines 157-162: args after the evaluation branch ran
EvalArgs(a) ==
    IF ResizeIm(a) /\ a.crop_pct = None
    THEN [a EXCEPT !.crop_pct = DefaultCropPct(a)]
    ELSE a

\* line 163, read after the assignment of lines 158-162
EvalSize(a) == IntDiv(a.input_size, EvalArgs(a).crop_pct)

\* lines 156-171
EvalTransform(a) ==
    (IF ResizeIm(a)
     THEN << Step("Resize", EvalSize(a), 0, Bicubic, "", ""),
             Step("CenterCrop", a.input_size, 0, 0, "", "") >>
     ELSE << >>)
    \o << Plain("ToTensor"), Step("Normalize", 0, 0, 0, Mean(a), Std(a)) >>

\* build_transform(is_train, args) given the pipeline the external procedure
\* returns: the transform returned and args as the call leaves it
build_transform(is_train, a, ext) ==
    IF is_train
    THEN [transform |-> TrainTransform(a, ext), args |-> a]
    ELSE [transform |-> EvalTransform(a), args |-> EvalArgs(a)]

(***************************************************************************)
(* Dataset selector                                                        *)
(***************************************************************************)
Dataset(cls, root, split, transform) ==
    [cls |-> cls, root |-> root, split |-> split, transform |-> transform]

Raised(err) == [outcome |-> err, dataset |-> << >>, nb_classes |-> 0]

Returned(dataset, nb) == [outcome |-> "return", dataset |-> <<dataset>>, nb_classes |-> nb]

\* returns without the final assert
UncheckedReturn(a, dataset, nb) == Returned(dataset, nb)

\* lines 123-126: the final assert, then the return
CheckedReturn(a, dataset, nb) ==
    IF nb = a.nb_classes THEN Returned(dataset, nb) ELSE Raised("AssertionError")

\* lines 110, 115
Root(is_train, a) == IF is_train THEN a.data_path ELSE a.eval_data_path

\* an unknown identifier falls through to the CIFAR branch
DispatchDefaulting(is_train, a, transform, e) ==
    IF a.data_set = "IMNET"
    THEN CheckedReturn(a, Dataset("datasets.ImageFolder",
                                  <<a.data_path, IF is_train THEN "train" ELSE "val">>,
                                  "", transform),
                       ImnetClasses)
    ELSE IF a.data_set = "image_folder"
    THEN IF e.folder_classes[Root(is_train, a)] = a.nb_classes
         THEN CheckedReturn(a, Dataset("ImageFolder", <<Root(is_train, a)>>, "", transform),
                            a.nb_classes)
         ELSE Raised("AssertionError")
    ELSE IF a.data_set = "iwildcam"
    THEN IF e.wilds_classes = a.nb_classes
         THEN CheckedReturn(a, Dataset("iwildcam", <<Root(is_train, a)>>,
                                       IF is_train THEN "train" ELSE "test", transform),
                            a.nb_classes)
         ELSE Raised("AssertionError")
    ELSE CheckedReturn(a, Dataset("CIFAR100", <<a.data_path>>,
                                  IF is_train THEN "train" ELSE "test", transform),
                       CifarClasses)

\* lines 102-126, with a the args as build_transform left it, transform the
\* transform it returned and e the class counts found on disk
Dispatch(is_train, a, transform, e) ==
    IF a.data_set = "CIFAR"
    THEN CheckedReturn(a, Dataset("CIFAR100", <<a.data_path>>,
                                  IF is_train THEN "train" ELSE "test", transform),
                       CifarClasses)
    ELSE IF a.data_set = "IMNET"
    THEN CheckedReturn(a, Dataset("datasets.ImageFolder",
                                  <<a.data_path, IF is_train THEN "train" ELSE "val">>,
                                  "", transform),
                       ImnetClasses)
    ELSE IF a.data_set = "image_folder"
    THEN IF e.folder_classes[Root(is_train, a)] = a.nb_classes
         THEN CheckedReturn(a, Dataset("ImageFolder", <<Root(is_train, a)>>, "", transform),
                            a.nb_classes)
         ELSE Raised("AssertionError")
    ELSE IF a.data_set = "iwildcam"
    THEN IF e.wilds_classes = a.nb_classes
         THEN CheckedReturn(a, Dataset("iwildcam", <<Root(is_train, a)>>,
                                       IF is_train THEN "train" ELSE "test", transform),
                            a.nb_classes)
         ELSE Raised("AssertionError")
    ELSE Raised("NotImplementedError")

\* build_dataset(is_train, args): line 89 runs build_transform first, on the
\* same args object
build_dataset(is_train, a, ext, e) ==
    LET bt == build_transform(is_train, a, ext)
        d  == Dispatch(is_train, bt.args, bt.transform, e)
    IN  [transform |-> bt.transform, args |-> bt.args, outcome |-> d.outcome,
         dataset |-> d.dataset, nb_classes |-> d.nb_classes]

(***************************************************************************)
(* Paths: sequences of characters                                          *)
(***************************************************************************)
Slash == "/"
Dot == "."
Png == << ".", "p", "n", "g" >>

\* index of the first / last occurrence of c in s, 0 when there is none
FirstIndex(s, c) ==
    IF \E i \in 1..Len(s) : s[i] = c
    THEN CHOOSE i \in 1..Len(s) : s[i] = c /\ \A j \in 1..(i - 1) : s[j] # c
    ELSE 0

LastIndex(s, c) ==
    IF \E i \in 1..Len(s) : s[i] = c
    THEN CHOOSE i \in 1..Len(s) : s[i] = c /\ \A j \in (i + 1)..Len(s) : s[j] # c
    ELSE 0

\* os.path.split(path)[-1]
Basename(path) == SubSeq(path, LastIndex(path, Slash) + 1, Len(path))

\* name.split('.')[0]
SplitDotFirst(name) ==
    IF FirstIndex(name, Dot) = 0 THEN name
    ELSE SubSeq(name, 1, FirstIndex(name, Dot) - 1)

\* os.path.join(a, b) for a b that does not start with a slash
PathJoin(a, b) ==
    IF a = << >> \/ a[Len(a)] = Slash THEN a \o b ELSE a \o <<Slash>> \o b

\* line 73
MapName(path) == SplitDotFirst(Basename(path)) \o Png

\* line 74: the path handed to the saliency mask generator
MapPath(att_root, path) == PathJoin(att_root, MapName(path))

(***************************************************************************)
(* Mask generators (masking_generator.py, saliency_mask.py)                *)
(***************************************************************************)
NumPatches(window) == window[1] * window[2]

\* round(ratio * n) for a fraction ratio in [0, 1]
NumMask(window, ratio) ==
    (2 * ratio[1] * NumPatches(window) + ratio[2]) \div (2 * ratio[2])

Ones(bits) == Cardinality({i \in DOMAIN bits : bits[i] = 1})

\* the masks one invocation of the random generator may produce
RandomMasks(window, ratio) ==
    { [gen |-> "random", path |-> << >>, bits |-> b] :
        b \in { c \in [1..NumPatches(window) -> {0, 1}] :
                  Ones(c) = NumMask(window, ratio) } }

\* the saliency generator on a file that exists: a mask fixed by the file
SaliencyMask(path) == [gen |-> "saliency", path |-> path, bits |-> << >>]

(***************************************************************************)
(* DataAugmentationForMAE                                                  *)
(***************************************************************************)
\* lines 26-43
DataAugmentationForMAE(a, standard) ==
    [transform |-> << Step("RandomResizedCrop", a.input_size, 0, 0, "", ""),
                      Plain("ToTensor"),
                      Step("Normalize", 0, 0, 0, Mean(a), Std(a)) >>,
     standard |-> standard,
     window |-> a.window_size,
     ratio |-> a.mask_ratio]

Tensor(t, path) == [image |-> path, by |-> t.transform]

\* lines 45-48: the values one call may return, each with the generator
\* invocations it made
AugCall(t, path) ==
    IF t.standard
    THEN { [tensor |-> Tensor(t, path), mask |-> <<m>>,
            log |-> << [gen |-> "random", path |-> << >>] >>] :
             m \in RandomMasks(t.window, t.ratio) }
    ELSE { [tensor |-> Tensor(t, path), mask |-> << >>, log |-> << >>] }

(***************************************************************************)
(* ImageFolder (dataset_folder.py) and ImageFolderWithAttMap               *)
(***************************************************************************)
Alphabet == << ".", "/", "a", "b", "c", "d", "e", "f", "g", "h", "j", "k", "n", "p", "s" >>

Ord(c) == CHOOSE i \in 1..Len(Alphabet) : Alphabet[i] = c

RECURSIVE LexLess(_, _)
LexLess(s, t) ==
    IF t = << >> THEN FALSE
    ELSE IF s = << >> THEN TRUE
    ELSE IF Ord(s[1]) # Ord(t[1]) THEN Ord(s[1]) < Ord(t[1])
    ELSE LexLess(Tail(s), Tail(t))

\* path relative to the root directory
Under(root, path) == SubSeq(path, Len(root) + 2, Len(path))

InClassDir(root, path) == FirstIndex(Under(root, path), Slash) > 1

ClassOf(root, path) ==
    SubSeq(Under(root, path), 1, FirstIndex(Under(root, path), Slash) - 1)

\* the folder-per-class discovery: one class per directory under the root
FindClassesDefault(root, listing) ==
    LET names == { ClassOf(root, listing[i]) :
                     i \in { j \in 1..Len(listing) : InClassDir(root, listing[j]) } }
    IN  [names |-> names,
         idx |-> [c \in names |-> Cardinality({ b \in names : LexLess(b, c) })]]

\* lines 77-78: return [""], {"": 0}
FindClassesSingle(root, listing) ==
    [names |-> { << >> }, idx |-> [c \in { << >> } |-> 0]]

\* the samples of a folder dataset: the files of each class directory, with
\* the class index; under the class "" every file below the root
Samples(root, listing, classes) ==
    LET keep(path) == IF << >> \in classes.names THEN TRUE
                      ELSE InClassDir(root, path)
        label(path) == IF << >> \in classes.names THEN classes.idx[<< >>]
                       ELSE classes.idx[ClassOf(root, path)]
        kept == SelectSeq(listing, keep)
    IN  [i \in 1..Len(kept) |-> [path |-> kept[i], target |-> label(kept[i])]]

Handle(cls, root, listing, classes, transform, att_root) ==
    [cls |-> cls, root |-> root, classes |-> classes.names,
     samples |-> Samples(root, listing, classes),
     transform |-> transform, att_root |-> att_root]

\* dataset_folder.ImageFolder(root, transform=transform)
ImageFolder(root, listing, transform) ==
    Handle("ImageFolder", root, listing, FindClassesDefault(root, listing),
           transform, << >>)

\* lines 60-63, 77-78
ImageFolderWithAttMap(cfg, root, listing, transform) ==
    Handle("ImageFolderWithAttMap", root, listing, FindClassesSingle(root, listing),
           transform, cfg.att_root)

\* builds the augmentation with the random mask generator in both modes
build_pretraining_dataset_masked(a, standard, listing) ==
    IF standard
    THEN ImageFolder(a.data_path, listing, DataAugmentationForMAE(a, TRUE))
    ELSE ImageFolderWithAttMap(a, a.data_path, listing,
                               DataAugmentationForMAE(a, TRUE))

\* lines 80-86
build_pretraining_dataset(a, standard, listing) ==
    IF standard
    THEN ImageFolder(a.data_path, listing, DataAugmentationForMAE(a, standard))
    ELSE ImageFolderWithAttMap(a, a.data_path, listing,
                               DataAugmentationForMAE(a, standard))

Got(index, tensor, tmask, mask, target, lg) ==
    [index |-> index, outcome |-> "return",
     sample |-> << [tensor |-> tensor, tmask |-> tmask, mask |-> mask] >>,
     target |-> target, log |-> lg]

Failed(index, err, lg) ==
    [index |-> index, outcome |-> err, sample |-> << >>, target |-> 0, log |-> lg]

\* SaliencyMaskGenerator.__call__(path): the mask of the file, or the
\* error of a missing file
SaliencyMaskGenerator(path, maps) ==
    IF path \in maps
    THEN [error |-> "", mask |-> <<SaliencyMask(path)>>]
    ELSE [error |-> "FileNotFoundError", mask |-> << >>]

\* line 74, the generator called on path, and line 76, the return; an error
\* of the generator leaves the retrieval.  s is what the transform returned
\* for the image.
SaliencyCall(index, path, s, target, maps) ==
    LET call == << [gen |-> "saliency", path |-> path] >>
        g == SaliencyMaskGenerator(path, maps)
    IN  IF g.error = ""
        THEN Got(index, s.tensor, s.mask, g.mask, target, s.log \o call)
        ELSE Failed(index, g.error, s.log \o call)

\* lines 65-76: ImageFolderWithAttMap.__getitem__
AttMapGetItem(d, index, maps) ==
    { SaliencyCall(index, MapPath(d.att_root, d.samples[index].path),
                   s, d.samples[index].target, maps) :
        s \in AugCall(d.transform, d.samples[index].path) }

\* ImageFolder.__getitem__: (transform(image), target)
FolderGetItem(d, index) ==
    { Got(index, s.tensor, s.mask, << >>, d.samples[index].target, s.log) :
        s \in AugCall(d.transform, d.samples[index].path) }

GetItemOf(d, index, maps) ==
    IF d.cls = "ImageFolderWithAttMap"
    THEN AttMapGetItem(d, index, maps)
    ELSE FolderGetItem(d, index)

(***************************************************************************)
(* The state machine of the builders                                       *)
(***************************************************************************)
InputSizes == {32, 33, 224, 383, 384}
CropPcts == {None, Frac(1, 2), Frac(3, 4)}
DataSets == {"CIFAR", "IMNET", "image_folder", "iwildcam", "bogus", "cifar"}
NbClasses == {5, CifarClasses, ImnetClasses}
Found == {5, 6}
Roots == { <<"d">>, <<"e">> }

Args == [input_size : InputSizes, crop_pct : CropPcts, data_set : DataSets,
         nb_classes : NbClasses, imagenet_default_mean_and_std : BOOLEAN,
         data_path : { <<"d">> }, eval_data_path : { <<"e">> },
         att_root : { <<"s">> }, window_size : { <<2, 2>> },
         mask_ratio : { Frac(1, 2) }]

Envs == [folder_classes : [Roots -> Found], wilds_classes : Found]

NoRet == [fn |-> "none", is_train |-> FALSE, outcome |-> "none",
          transform |-> << >>, dataset |-> << >>, nb_classes |-> 0]

NoItem == [index |-> 0, outcome |-> "none", sample |-> << >>, target |-> 0]

NoDisk == [images |-> << >>, maps |-> { }]

InitBuilders ==
    /\ env \in Envs
    /\ ret = NoRet
    /\ pre = [args |-> args, ext |-> << >>]
    /\ first = << >>
    /\ calls = 0

InitPretraining ==
    /\ ds = << >>
    /\ item = NoItem
    /\ log = << >>
    /\ hist = << >>

Init ==
    /\ args \in Args
    /\ InitBuilders
    /\ disk = NoDisk
    /\ InitPretraining

\* the pipeline the external procedure hands back; none on the evaluation path
External(is_train, a) == IF is_train THEN CreateTransform(a) ELSE { << >> }

Remember(is_train, transform) ==
    IF ~is_train /\ first = << >> THEN <<transform>> ELSE first

BuildTransform(is_train) ==
    /\ calls < MaxCalls
    /\ \E ext \in External(is_train, args) :
         LET r == build_transform(is_train, args, ext)
         IN  /\ ret' = [fn |-> "build_transform", is_train |-> is_train,
                        outcome |-> "return", transform |-> r.transform,
                        dataset |-> << >>, nb_classes |-> 0]
             /\ args' = r.args
             /\ pre' = [args |-> args, ext |-> ext]
             /\ first' = Remember(is_train, r.transform)
    /\ calls' = calls + 1
    /\ UNCHANGED <<env, pretrainVars>>

BuildDataset(is_train) ==
    /\ calls < MaxCalls
    /\ \E ext \in External(is_train, args) :
         LET r == build_dataset(is_train, args, ext, env)
         IN  /\ ret' = [fn |-> "build_dataset", is_train |-> is_train,
                        outcome |-> r.outcome,
                        transform |-> r.transform,
                        dataset |-> r.dataset, nb_classes |-> r.nb_classes]
             /\ args' = r.args
             /\ pre' = [args |-> args, ext |-> ext]
             /\ first' = Remember(is_train, r.transform)
    /\ calls' = calls + 1
    /\ UNCHANGED <<env, pretrainVars>>

Next ==
    \/ \E is_train \in BOOLEAN : BuildTransform(is_train)
    \/ \E is_train \in BOOLEAN : BuildDataset(is_train)

Spec == Init /\ [][Next]_vars

(***************************************************************************)
(* Properties of the builders, checked under Spec                          *)
(***************************************************************************)
Called == ret.fn # "none"
CalledDataset == ret.fn = "build_dataset"
EvalCall == Called /\ ~ret.is_train
TrainCall == Called /\ ret.is_train

Recognised == {"CIFAR", "IMNET", "image_folder", "iwildcam"}

\* C1: build_dataset with a data_set other than CIFAR, IMNET, image_folder
\* and iwildcam fails with NotImplementedError, for both values of is_train:
\* nothing is returned and no branch serves as a default.
C1_UnknownDataSetFails ==
    (CalledDataset /\ pre.args.data_set \notin Recognised)
        => /\ ret.outcome = "NotImplementedError"
           /\ ret.dataset = << >>
           /\ ret.nb_classes = 0

C1_Witness ==
    CalledDataset /\ pre.args.data_set = "cifar" /\ ~ret.is_train
    /\ pre.args.nb_classes = 100

\* the class count of the branch the call selected
BranchCount ==
    IF pre.args.data_set = "CIFAR" THEN 100
    ELSE IF pre.args.data_set = "IMNET" THEN 1000
    ELSE IF pre.args.data_set = "image_folder"
    THEN env.folder_classes[IF ret.is_train THEN <<"d">> ELSE <<"e">>]
    ELSE env.wilds_classes

\* C2: build_dataset returns only when the class count of the selected
\* branch equals args.nb_classes, and the num_classes it returns is
\* args.nb_classes; with a different count the call fails and returns
\* nothing.
C2_ReturnsOnlyOnMatchingCount ==
    (CalledDataset /\ pre.args.data_set \in Recognised)
        => /\ ret.outcome = "return"
                => (BranchCount = args.nb_classes /\ ret.nb_classes = args.nb_classes)
           /\ BranchCount # args.nb_classes
                => (ret.outcome = "AssertionError" /\ ret.dataset = << >>)

C2_Witness ==
    /\ CalledDataset /\ ret.is_train
    /\ pre.args.data_set = "image_folder"
    /\ pre.args.nb_classes = 5
    /\ env.folder_classes[<<"d">>] = 6
    /\ ret.outcome = "AssertionError"

\* C3 as stated: no configuration field, crop_pct included, differs after
\* build_transform or build_dataset from its value before the call.
C3_ConfigurationNeverMutated == Called => args = pre.args

\* C3 amended: a call leaves every configuration field other than crop_pct
\* as it was, and changes crop_pct only on the evaluation path with
\* input_size > 32 and crop_pct None, storing 224/256 for input_size < 384
\* and 1.0 otherwise.
C3_OnlyCropPctDefaulted ==
    Called =>
        /\ \A f \in (DOMAIN args) \ {"crop_pct"} : args[f] = pre.args[f]
        /\ DOMAIN args = DOMAIN pre.args
        /\ args.crop_pct # pre.args.crop_pct
             => /\ ~ret.is_train
                /\ pre.args.input_size > 32
                /\ pre.args.crop_pct = None
                /\ args.crop_pct = IF pre.args.input_size < 384
                                   THEN <<7, 8>> ELSE <<1, 1>>

C3_Witness ==
    /\ ret.fn = "build_transform" /\ ~ret.is_train
    /\ pre.args.crop_pct = None
    /\ args.crop_pct = <<7, 8>>

\* C4: on the evaluation path with input_size > 32, a crop_pct that was not
\* supplied is 224/256 below 384 and 1.0 from 384 on, the first step resizes
\* to int(input_size / crop_pct) and the second center-crops to input_size;
\* 224 with no crop_pct resizes to 256, and 384 or more to input_size.
C4_EvalResizeSize ==
    (EvalCall /\ pre.args.input_size > 32) =>
        LET i == pre.args.input_size
            given == pre.args.crop_pct
            cp == IF given # None THEN given
                  ELSE IF i < 384 THEN <<224, 256>> ELSE <<1, 1>>
            t == ret.transform
        IN  /\ Len(t) >= 2
            /\ t[1].op = "Resize"
            /\ t[1].size * cp[1] <= i * cp[2]
            /\ (t[1].size + 1) * cp[1] > i * cp[2]
            /\ t[2].op = "CenterCrop"
            /\ t[2].size = i
            /\ (i = 224 /\ given = None) => (t[1].size = 256 /\ t[2].size = 224)
            /\ (i >= 384 /\ given = None) => t[1].size = i

C4_Witness ==
    /\ EvalCall /\ pre.args.input_size = 224 /\ pre.args.crop_pct = None
    /\ ret.transform[1].size = 256

HasResizeThenCrop(t) ==
    \E k \in 1..(Len(t) - 1) : t[k].op = "Resize" /\ t[k + 1].op = "CenterCrop"

HasResizeOrCrop(t) ==
    \E k \in 1..Len(t) : t[k].op \in {"Resize", "CenterCrop"}

\* C5: the evaluation pipeline has a resize step followed by a center-crop
\* step exactly when input_size > 32; for input_size <= 32 it is tensor
\* conversion then normalization and nothing else; its last two steps are
\* always tensor conversion and normalization with the preset that
\* imagenet_default_mean_and_std selects.
C5_EvalPipelineShape ==
    EvalCall =>
        LET t == ret.transform
            n == Len(t)
            dflt == pre.args.imagenet_default_mean_and_std
        IN  /\ HasResizeThenCrop(t) <=> pre.args.input_size > 32
            /\ pre.args.input_size <= 32 => (n = 2 /\ ~HasResizeOrCrop(t))
            /\ n >= 2
            /\ t[n - 1].op = "ToTensor"
            /\ t[n].op = "Normalize"
            /\ t[n].mean = IF dflt THEN "IMAGENET_DEFAULT_MEAN"
                           ELSE "IMAGENET_INCEPTION_MEAN"
            /\ t[n].std = IF dflt THEN "IMAGENET_DEFAULT_STD"
                          ELSE "IMAGENET_INCEPTION_STD"

C5_Witness ==
    /\ EvalCall /\ pre.args.input_size = 32 /\ Len(ret.transform) = 2
    /\ ~pre.args.imagenet_default_mean_and_std

\* C9: on the training path with input_size <= 32 the first step of the
\* external pipeline is replaced by a random crop to input_size with padding
\* 4 and the other steps stay as returned, in order; with input_size > 32
\* the pipeline is returned as the external procedure produced it.
C9_TrainFirstStepReplaced ==
    TrainCall =>
        LET t == ret.transform
            ext == pre.ext
            i == pre.args.input_size
        IN  /\ Len(t) = Len(ext)
            /\ i <= 32 => /\ t[1].op = "RandomCrop"
                          /\ t[1].size = i
                          /\ t[1].padding = 4
                          /\ \A k \in 2..Len(ext) : t[k] = ext[k]
            /\ i > 32 => t = ext

C9_Witness ==
    /\ TrainCall /\ pre.args.input_size = 32
    /\ Len(pre.ext) = 6
    /\ pre.ext[1].op = "RandomResizedCropAndInterpolation"

ResizeOf(t) == IF HasResizeThenCrop(t) THEN <<t[1].size, t[2].size>> ELSE << >>

\* C10: across any sequence of calls on one configuration object a crop_pct
\* that is not None is never overwritten; crop_pct is assigned only by a
\* call with is_train = False and input_size > 32 that finds it None; and a
\* repeated evaluation build has the resize and crop size of the first one.
C10_CropPctWriteOnce ==
    [][ /\ args.crop_pct # None => args'.crop_pct = args.crop_pct
        /\ args'.crop_pct # args.crop_pct
             => (~ret'.is_train /\ args.input_size > 32 /\ args.crop_pct = None)
        /\ (first # << >> /\ ~ret'.is_train /\ calls' # calls)
             => ResizeOf(ret'.transform) = ResizeOf(first[1])
      ]_vars

C10_Witness ==
    /\ EvalCall /\ calls >= 2
    /\ pre.args.crop_pct = <<7, 8>>
    /\ pre.args.input_size = 33
    /\ ResizeOf(ret.transform) = <<37, 33>>

(***************************************************************************)
(* The state machine of pretraining: build the dataset, retrieve samples   *)
(***************************************************************************)
ImgF   == << "d", "/", "a", "/", "f", ".", "j", "p", "g" >>
ImgFB  == << "d", "/", "a", "/", "f", ".", "b", ".", "j", "p", "g" >>
ImgG   == << "d", "/", "b", ".", "c", "/", "g", ".", "j", "p", "g" >>
ImgH   == << "d", "/", "b", ".", "c", "/", ".", "h", ".", "j", "p", "g" >>
ImgK   == << "d", "/", "k", ".", "p", "n", "g" >>

Listings == { <<ImgF, ImgFB>>, <<ImgF, ImgG, ImgK>>, <<ImgG, ImgH>> }

MapF   == << "s", "/", "f", ".", "p", "n", "g" >>
MapFB  == << "s", "/", "f", ".", "b", ".", "p", "n", "g" >>
MapG   == << "s", "/", "g", ".", "p", "n", "g" >>
MapK   == << "s", "/", "k", ".", "p", "n", "g" >>

Maps == { MapF, MapFB, MapG, MapK }

AttRoots == { <<"s">>, <<"s", "/">> }

PretrainArgs ==
    [input_size : {224}, crop_pct : {None}, data_set : {"image_folder"},
     nb_classes : {5}, imagenet_default_mean_and_std : BOOLEAN,
     data_path : { <<"d">> }, eval_data_path : { <<"e">> },
     att_root : AttRoots, window_size : { <<2, 2>> },
     mask_ratio : { Frac(1, 2) }]

InitPretrain ==
    /\ args \in PretrainArgs
    /\ InitBuilders
    /\ env.wilds_classes = 5 /\ \A r \in Roots : env.folder_classes[r] = 5
    /\ disk \in [images : Listings, maps : SUBSET Maps]
    /\ InitPretraining

BuildPretrainingDataset(standard) ==
    /\ ds = << >>
    /\ ds' = << build_pretraining_dataset(args, standard, disk.images), standard >>
    /\ UNCHANGED <<args, builderVars, disk, item, log, hist>>

GetItem(index) ==
    /\ ds # << >>
    /\ Len(hist) < MaxGets
    /\ index \in 1..Len(ds[1].samples)
    /\ \E r \in GetItemOf(ds[1], index, disk.maps) :
         /\ item' = [index |-> r.index, outcome |-> r.outcome,
                     sample |-> r.sample, target |-> r.target]
         /\ log' = r.log
         /\ hist' = Append(hist, [index |-> r.index, outcome |-> r.outcome])
    /\ UNCHANGED <<args, builderVars, disk, ds>>

NextPretrain ==
    \/ \E standard \in BOOLEAN : BuildPretrainingDataset(standard)
    \/ \E index \in 1..3 : GetItem(index)

SpecPretrain == InitPretrain /\ [][NextPretrain]_vars

(***************************************************************************)
(* Properties of pretraining, checked under SpecPretrain                   *)
(***************************************************************************)
Built == ds # << >>
Wrapped == Built /\ ds[1].cls = "ImageFolderWithAttMap"
Retrieved == Built /\ item.outcome # "none"
ImageAt(index) == ds[1].samples[index].path

\* the base name without its extension, as os.path.splitext cuts it: at the
\* last dot, unless that dot only leads the name
StripExtension(name) ==
    LET k == LastIndex(name, Dot)
    IN  IF k > 1 /\ \E j \in 1..(k - 1) : name[j] # Dot
        THEN SubSeq(name, 1, k - 1)
        ELSE name

\* att_root/<base name without extension>.png
Companion(att_root, path) ==
    (IF att_root[Len(att_root)] = Slash THEN att_root ELSE att_root \o <<Slash>>)
    \o StripExtension(Basename(path)) \o Png

\* C6: for every image path, whatever its directory and however many dots
\* its base name has, the path handed to the saliency mask generator is
\* att_root/<base name without extension>.png.
C6_CompanionPathStripsExtension ==
    (Wrapped /\ Retrieved) =>
        log[Len(log)].path = Companion(args.att_root, ImageAt(item.index))

\* the same for base names with one dot, not leading: there the code agrees
SingleDotCompanion ==
    (Wrapped /\ Retrieved /\ ImageAt(item.index) \in {ImgF, ImgG, ImgK}) =>
        log[Len(log)].path = Companion(args.att_root, ImageAt(item.index))

\* C7: a retrieval whose companion saliency file is missing fails with the
\* generator's error: nothing is returned, no other mask is used in its
\* place, the generator is called once; and every retrieval returns or
\* fails by its own companion file alone, whatever happened before.
C7_MissingCompanionFails ==
    (Wrapped /\ Retrieved) =>
        /\ Companion(args.att_root, ImageAt(item.index)) \notin disk.maps
             => /\ item.outcome = "FileNotFoundError"
                /\ item.sample = << >>
                /\ Len(log) = 1
        /\ \A k \in 1..Len(hist) :
             hist[k].outcome = "return"
               <=> Companion(args.att_root, ImageAt(hist[k].index)) \in disk.maps

\* the same about the file the retrieval looks up: the code propagates the
\* error of the path it resolved
LookupMissingFails ==
    (Wrapped /\ Retrieved) =>
        /\ Len(log) = 1
        /\ log[1].gen = "saliency"
        /\ log[1].path \notin disk.maps
             => (item.outcome = "FileNotFoundError" /\ item.sample = << >>)
        /\ log[1].path \in disk.maps => item.outcome = "return"
        /\ \A k \in 1..Len(hist) :
             hist[k].outcome = "return"
               <=> MapPath(args.att_root, ImageAt(hist[k].index)) \in disk.maps

\* what both modes of build_pretraining_dataset have in common in C8
OneMaskSourcePerMode ==
    /\ (Built /\ ds[2]) =>
          /\ ds[1].cls = "ImageFolder"
          /\ Retrieved =>
               /\ item.outcome = "return"
               /\ Len(item.sample[1].tmask) = 1
               /\ item.sample[1].tmask[1].gen = "random"
               /\ Ones(item.sample[1].tmask[1].bits) = 2
               /\ item.sample[1].mask = << >>
               /\ log = << [gen |-> "random", path |-> << >>] >>
    /\ (Built /\ ~ds[2]) =>
          /\ ds[1].cls = "ImageFolderWithAttMap"
          /\ ds[1].classes = { << >> }
          /\ \A i \in 1..Len(ds[1].samples) : ds[1].samples[i].target = 0
          /\ Len(ds[1].samples) = Len(disk.images)
          /\ Retrieved =>
               /\ Len(log) = 1 /\ log[1].gen = "saliency"
               /\ item.outcome = "return" =>
                    /\ item.sample[1].tmask = << >>
                    /\ Len(item.sample[1].mask) = 1
                    /\ item.sample[1].mask[1].gen = "saliency"
                    /\ item.target = 0

\* C8 as stated: one mask source per mode, and in standard mode too a single
\* synthetic class.
C8_OneMaskSourceSingleClass ==
    /\ OneMaskSourcePerMode
    /\ (Built /\ ds[2]) =>
          /\ Cardinality(ds[1].classes) = 1
          /\ \A i \in 1..Len(ds[1].samples) : ds[1].samples[i].target = 0

\* the directories right under data_path that hold a listed image
ClassDirs ==
    { SubSeq(p, 3, 2 + FirstIndex(SubSeq(p, 3, Len(p)), Slash) - 1) :
        p \in { disk.images[i] : i \in { j \in 1..Len(disk.images) :
                  FirstIndex(SubSeq(disk.images[j], 3, Len(disk.images[j])), Slash) > 0 } } }

\* C8 amended: one mask source per mode; in standard mode the dataset is the
\* plain folder dataset with its own class discovery, one class per
\* directory under data_path, not a single synthetic class.
C8_OneMaskSourceFolderClasses ==
    /\ OneMaskSourcePerMode
    /\ (Built /\ ds[2]) =>
          /\ ds[1].classes = ClassDirs
          /\ \A i \in 1..Len(ds[1].samples) :
               ds[1].samples[i].target \in 0..(Cardinality(ClassDirs) - 1)

C8_Witness ==
    /\ Built /\ ds[2] /\ Retrieved
    /\ disk.images = <<ImgF, ImgG, ImgK>>
    /\ item.index = 2 /\ item.target = 1
    /\ Len(item.sample[1].tmask) = 1


====
